---- MODULE Spec2Model ----
\* The markdown editor component (client/src/components/markdown_editor.tsx):
\* the formatting-action dispatcher, the upload adapter and the bridge between
\* the Monaco editor and the parent's content state.
\*
\* Text is a sequence of one-character strings; "\n" is the line terminator of
\* the editor model.  Positions are Monaco positions (1-based line and column).
EXTENDS Integers, Sequences, FiniteSets, TLC

VARIABLES
    mounted,      \* editorRef.current is set (handleEditorMount has run)
    text,         \* the editor model's value (editor.getValue())
    selection,    \* editor.getSelection(): a Monaco Range
    content,      \* the parent's state, passed down as the content prop
    pending,      \* setContent calls not yet rendered: <<>> or <<value>>
    effectDue,    \* the useEffect([content]) run is scheduled
    isComposing,  \* isComposingRef.current
    uploading,    \* the uploading state (the spinner)
    inflight,     \* the uploads whose promise has not settled
    requests,     \* number of upload requests issued (client.storage.index.post)
    undoStack,    \* the editor's undo stack: the texts and selections to go back to
    nops,         \* number of user events left (bounds the behaviours)
    last          \* what the last handler did (observation of one handler run)

vars == <<mounted, text, selection, content, pending, effectDue, isComposing,
          uploading, inflight, requests, undoStack, nops, last>>

-----------------------------------------------------------------------------
\* Bounds of the model
MaxOps == 2          \* formatting actions dispatched in one behaviour

-----------------------------------------------------------------------------
\* Strings

NL == "\n"
TAB == "\t"
BQ == "bq"      \* the backquote character (U+0060), one character of a text

Min(S) == CHOOSE x \in S : \A y \in S : x <= y

\* String.prototype.startsWith / endsWith
StartsWith(s, p) == Len(s) >= Len(p) /\ SubSeq(s, 1, Len(p)) = p
EndsWith(s, p) == Len(s) >= Len(p) /\ SubSeq(s, Len(s) - Len(p) + 1, Len(s)) = p

\* s.slice(a, -b): from index a (0-based) to b characters before the end
SliceInner(s, a, b) ==
    LET n == Len(s)
        from == IF a > n THEN n ELSE a
        to == IF n - b < 0 THEN 0 ELSE n - b
    IN  IF to <= from THEN <<>> ELSE SubSeq(s, from + 1, to)

\* '#'.repeat(level)
RECURSIVE Repeat(_, _)
Repeat(c, n) == IF n <= 0 THEN <<>> ELSE <<c>> \o Repeat(c, n - 1)

\* s.split('\n')
RECURSIVE SplitLines(_)
SplitLines(s) ==
    LET at == {i \in 1..Len(s) : s[i] = NL}
    IN  IF at = {} THEN <<s>>
        ELSE LET i == Min(at)
             IN  <<SubSeq(s, 1, i - 1)>> \o SplitLines(SubSeq(s, i + 1, Len(s)))

\* lines.join('\n')
RECURSIVE JoinLines(_)
JoinLines(ls) ==
    IF Len(ls) = 0 THEN <<>>
    ELSE IF Len(ls) = 1 THEN ls[1]
    ELSE ls[1] \o <<NL>> \o JoinLines(Tail(ls))

\* `${index + 1}`: the decimal digits of a positive number
DigitChar(d) == <<"0", "1", "2", "3", "4", "5", "6", "7", "8", "9">>[d + 1]
RECURSIVE NumberToString(_)
NumberToString(n) ==
    IF n < 10 THEN <<DigitChar(n)>>
    ELSE NumberToString(n \div 10) \o <<DigitChar(n % 10)>>

\* the character classes of the regular expressions
IsLineTerminator(c) == c \in {NL, "\r"}
WhitespaceChars == {" ", TAB, NL, "\r"}
DigitChars == {"0", "1", "2", "3", "4", "5", "6", "7", "8", "9"}
IsWhitespace(c) == c \in WhitespaceChars
IsDigit(c) == c \in DigitChars

-----------------------------------------------------------------------------
\* The editor model (monaco-editor ITextModel with "\n" line ends)

Range(sl, sc, el, ec) ==
    [startLineNumber |-> sl, startColumn |-> sc, endLineNumber |-> el, endColumn |-> ec]

GetLineCount(txt) == Len(SplitLines(txt))
GetLineContent(txt, lineNumber) == SplitLines(txt)[lineNumber]
GetLineLength(txt, lineNumber) == Len(GetLineContent(txt, lineNumber))

\* model.validatePosition: a position is clamped into the model
ValidLine(txt, ln) ==
    IF ln < 1 THEN 1 ELSE IF ln > GetLineCount(txt) THEN GetLineCount(txt) ELSE ln
ValidColumn(txt, ln, col) ==
    IF ln < 1 THEN 1
    ELSE IF ln > GetLineCount(txt) THEN GetLineLength(txt, GetLineCount(txt)) + 1
    ELSE IF col < 1 THEN 1
    ELSE IF col > GetLineLength(txt, ln) + 1 THEN GetLineLength(txt, ln) + 1
    ELSE col

\* model.getOffsetAt: number of characters before a position
RECURSIVE LinesBefore(_, _)
LinesBefore(ls, ln) == IF ln <= 1 THEN 0 ELSE Len(ls[1]) + 1 + LinesBefore(Tail(ls), ln - 1)
GetOffsetAt(txt, ln, col) ==
    LinesBefore(SplitLines(txt), ValidLine(txt, ln)) + ValidColumn(txt, ln, col) - 1

\* model.getPositionAt
LineOfOffset(txt, off) == 1 + Cardinality({i \in 1..off : txt[i] = NL})
ColumnOfOffset(txt, off) ==
    LET nls == {i \in 1..off : txt[i] = NL}
    IN  IF nls = {} THEN off + 1 ELSE off - (CHOOSE i \in nls : \A j \in nls : j <= i) + 1
RangeOfOffsets(txt, from, to) ==
    Range(LineOfOffset(txt, from), ColumnOfOffset(txt, from),
          LineOfOffset(txt, to), ColumnOfOffset(txt, to))

RangeStart(txt, r) == GetOffsetAt(txt, r.startLineNumber, r.startColumn)
RangeEnd(txt, r) ==
    LET e == GetOffsetAt(txt, r.endLineNumber, r.endColumn)
    IN  IF e < RangeStart(txt, r) THEN RangeStart(txt, r) ELSE e

\* model.getValueInRange(range)
GetValueInRange(txt, r) == SubSeq(txt, RangeStart(txt, r) + 1, RangeEnd(txt, r))

\* editor.executeEdits(source, [{range, text}]): the new value of the model
EditedText(txt, r, newText) ==
    SubSeq(txt, 1, RangeStart(txt, r)) \o newText \o SubSeq(txt, RangeEnd(txt, r) + 1, Len(txt))

\* editor.executeEdits without an end cursor state: the selection is recovered
\* from its tracked range, whose ends move with the edit
TrackedOffset(off, from, to, n, isEnd) ==
    IF off < from \/ (off = from /\ ~isEnd) THEN off
    ELSE IF off >= to THEN off + n - (to - from)
    ELSE IF off > from + n THEN from + n ELSE off
SelectionAfterEdit(txt, sel, r, newText) ==
    LET from == RangeStart(txt, r)
        to == RangeEnd(txt, r)
        n == Len(newText)
        s == TrackedOffset(RangeStart(txt, sel), from, to, n, FALSE)
        e == TrackedOffset(RangeEnd(txt, sel), from, to, n, TRUE)
    IN  RangeOfOffsets(EditedText(txt, r, newText), s, IF e < s THEN s ELSE e)

-----------------------------------------------------------------------------
\* The regular expressions of the clear-format action

MatchAt(s, p, i) == i >= 1 /\ i + Len(p) - 1 <= Len(s) /\ SubSeq(s, i, i + Len(p) - 1) = p

\* "." matches every character but a line terminator
NoTerminator(s, a, b) == \A k \in a..b : ~IsLineTerminator(s[k])

\* /d(.*?)d/g with '$1': from the left, each opening d with the nearest closing
\* d after it on the same line is replaced by what stands between them
RECURSIVE StripWrappedFrom(_, _, _)
StripWrappedFrom(s, d, i) ==
    IF i > Len(s) THEN <<>>
    ELSE LET closes == {j \in (i + Len(d))..Len(s) :
                           MatchAt(s, d, j) /\ NoTerminator(s, i + Len(d), j - 1)}
         IN  IF MatchAt(s, d, i) /\ closes # {}
             THEN SubSeq(s, i + Len(d), Min(closes) - 1)
                    \o StripWrappedFrom(s, d, Min(closes) + Len(d))
             ELSE <<s[i]>> \o StripWrappedFrom(s, d, i + 1)
StripWrapped(s, d) == StripWrappedFrom(s, d, 1)

\* /\[(.*?)\]\(.*?\)/g with '$1'
RECURSIVE StripLinksFrom(_, _)
StripLinksFrom(s, i) ==
    IF i > Len(s) THEN <<>>
    ELSE LET parens(from) == {k \in from..Len(s) : s[k] = ")" /\ NoTerminator(s, from, k - 1)}
             closes == {j \in (i + 1)..(Len(s) - 1) :
                           /\ s[j] = "]" /\ s[j + 1] = "("
                           /\ NoTerminator(s, i + 1, j - 1)
                           /\ parens(j + 2) # {}}
         IN  IF s[i] = "[" /\ closes # {}
             THEN SubSeq(s, i + 1, Min(closes) - 1)
                    \o StripLinksFrom(s, Min(parens(Min(closes) + 2)) + 1)
             ELSE <<s[i]>> \o StripLinksFrom(s, i + 1)
StripLinks(s) == StripLinksFrom(s, 1)

\* the end of the longest run of characters of the class that starts at i
\* (i - 1 when s[i] is not of the class)
RunEnd(s, i, class) ==
    LET stops == {k \in i..Len(s) : s[k] \notin class}
    IN  IF stops = {} THEN Len(s) ELSE Min(stops) - 1

HashChars == {"#"}
IsHash(c) == c \in HashChars
IsQuote(c) == c = ">"
IsBullet(c) == c \in {"*", "-"}

\* where the marker of /^#+/, /^>/, /^[*-]/, /^\d+\./ ends when it starts at i; 0: no match
MarkerEnd(s, i, kind) ==
    CASE kind = "heading" -> IF IsHash(s[i]) THEN RunEnd(s, i, HashChars) ELSE 0
      [] kind = "quote" -> IF IsQuote(s[i]) THEN i ELSE 0
      [] kind = "bullet" -> IF IsBullet(s[i]) THEN i ELSE 0
      [] kind = "number" ->
            LET e == RunEnd(s, i, DigitChars)
            IN  IF e >= i /\ e + 1 <= Len(s) /\ s[e + 1] = "." THEN e + 1 ELSE 0

\* "^" under the m flag: the start of the text or just after a line terminator
AtLineStart(s, i) == i = 1 \/ IsLineTerminator(s[i - 1])

\* /^marker\s*/gm with '': the marker at a line start and all whitespace after it
\* (line terminators included) are removed
RECURSIVE StripLinePrefixFrom(_, _, _)
StripLinePrefixFrom(s, kind, i) ==
    IF i > Len(s) THEN <<>>
    ELSE IF AtLineStart(s, i) /\ MarkerEnd(s, i, kind) # 0
         THEN StripLinePrefixFrom(s, kind, RunEnd(s, MarkerEnd(s, i, kind) + 1, WhitespaceChars) + 1)
         ELSE <<s[i]>> \o StripLinePrefixFrom(s, kind, i + 1)
StripLinePrefix(s, kind) == StripLinePrefixFrom(s, kind, 1)

-----------------------------------------------------------------------------
\* handleMarkdownAction: the replacement text of each action

\* bold that tests only the opening marker
BoldTextOpenOnly(selectedText) ==
    IF StartsWith(selectedText, <<"*", "*">>)
    THEN SliceInner(selectedText, 2, 2)
    ELSE <<"*", "*">> \o selectedText \o <<"*", "*">>

\* case 'bold'
BoldText(selectedText) ==
    IF StartsWith(selectedText, <<"*", "*">>) /\ EndsWith(selectedText, <<"*", "*">>)
    THEN SliceInner(selectedText, 2, 2)
    ELSE <<"*", "*">> \o selectedText \o <<"*", "*">>

\* a prefix put before the selection as a whole, not before each of its lines
PrefixWhole(selectedText, prefix) == prefix \o selectedText

\* lines.map(line => prefix + line).join('\n'), or the bare prefix
PrefixLines(selectedText, prefix) ==
    IF selectedText # <<>>
    THEN LET lines == SplitLines(selectedText)
         IN  JoinLines([i \in 1..Len(lines) |-> prefix \o lines[i]])
    ELSE prefix

\* case 'blockquote'
QuoteText(selectedText) == PrefixLines(selectedText, <<">", " ">>)

\* case 'unordered-list'
UnorderedListText(selectedText) == PrefixLines(selectedText, <<"-", " ">>)

\* case 'ordered-list'
OrderedListText(selectedText) ==
    IF selectedText # <<>>
    THEN LET lines == SplitLines(selectedText)
         IN  JoinLines([i \in 1..Len(lines) |-> NumberToString(i) \o <<".", " ">> \o lines[i]])
    ELSE <<"1", ".", " ">>

\* case 'task-list'
TaskText(selectedText) == PrefixLines(selectedText, <<"-", " ", "[", " ", "]", " ">>)

\* case 'italic'
ItalicText(selectedText) ==
    IF StartsWith(selectedText, <<"*">>) /\ EndsWith(selectedText, <<"*">>) /\ Len(selectedText) > 1
    THEN SliceInner(selectedText, 1, 1)
    ELSE <<"*">> \o selectedText \o <<"*">>

\* case 'inline-code'
InlineCodeText(selectedText) ==
    IF StartsWith(selectedText, <<BQ>>) /\ EndsWith(selectedText, <<BQ>>) /\ Len(selectedText) > 1
    THEN SliceInner(selectedText, 1, 1)
    ELSE <<BQ>> \o selectedText \o <<BQ>>

\* case 'strikethrough'
StrikethroughText(selectedText) ==
    IF StartsWith(selectedText, <<"~", "~">>) /\ EndsWith(selectedText, <<"~", "~">>)
    THEN SliceInner(selectedText, 2, 2)
    ELSE <<"~", "~">> \o selectedText \o <<"~", "~">>

\* t(key) || fallback: the translation, or the fallback when it is the empty string
OrDefault(translation, fallback) == IF translation = <<>> THEN fallback ELSE translation

\* the fallback texts of the templates; a token stands for one character
LinkFallback == <<"lian", "jie", "wen", "ben">>
LanguageFallback == <<"l", "a", "n", "g", "u", "a", "g", "e">>
HeaderFallback == <<"biao", "ti">>
ContentFallback == <<"nei", "rong">>

UrlTail == <<"]", "(", "u", "r", "l", ")">>

\* case 'link': newText
LinkText(selectedText, translation) ==
    IF selectedText # <<>>
    THEN <<"[">> \o selectedText \o UrlTail
    ELSE <<"[">> \o OrDefault(translation, LinkFallback) \o UrlTail

\* case 'link': newSelection
LinkSelection(sel, selectedText, translation) ==
    IF selectedText # <<>>
    THEN Range(sel.startLineNumber, sel.startColumn + Len(selectedText) + 3,
               sel.endLineNumber, sel.startColumn + Len(selectedText) + 6)
    ELSE Range(sel.startLineNumber, sel.startColumn + 1,
               sel.startLineNumber,
               sel.startColumn + 1 + Len(OrDefault(translation, LinkFallback)))

Fence == <<BQ, BQ, BQ>>

\* case 'code-block': codeText
CodeBlockText(selectedText, translation) ==
    IF selectedText # <<>>
    THEN Fence \o <<NL>> \o selectedText \o <<NL>> \o Fence
    ELSE Fence \o <<NL>> \o OrDefault(translation, LanguageFallback) \o <<NL>> \o Fence

\* case 'code-block': newSelection
CodeBlockSelection(sel) ==
    Range(sel.startLineNumber + 1, 1, sel.startLineNumber + 1, 9)

\* case 'horizontal-rule': hrText and newPosition
HrText == <<NL, "-", "-", "-", NL>>
HrPosition(sel) == Range(sel.startLineNumber + 2, 1, sel.startLineNumber + 2, 1)

\* case 'table': tableText
TableRow(word) ==
    <<"|", " ">> \o word \o <<" ", "1", " ", "|", " ">> \o word \o <<" ", "2", " ", "|", " ">>
        \o word \o <<" ", "3", " ", "|", NL>>
TableText(header, cell) ==
    TableRow(OrDefault(header, HeaderFallback))
        \o <<"|", " ", "-", "-", "-", " ", "|", " ", "-", "-", "-", " ", "|", " ",
             "-", "-", "-", " ", "|", NL>>
        \o TableRow(OrDefault(cell, ContentFallback))

\* every leading space removed
DedentAll(line) == SubSeq(line, RunEnd(line, 1, {" "}) + 1, Len(line))

\* line.replace(/^ {1,4}/, ''): up to four leading spaces are removed
Dedent(line) ==
    LET n == RunEnd(line, 1, {" "})
    IN  SubSeq(line, (IF n > 4 THEN 4 ELSE n) + 1, Len(line))

Indent == <<" ", " ", " ", " ">>

\* case 'increase-indent': indentedText, or newLineContent when nothing is selected
IncreaseIndentText(selectedText, lineContent) ==
    IF selectedText # <<>>
    THEN LET lines == SplitLines(selectedText)
         IN  JoinLines([i \in 1..Len(lines) |-> Indent \o lines[i]])
    ELSE Indent \o lineContent

\* case 'decrease-indent': dedentedText, or newLineContent when nothing is selected
DecreaseIndentText(selectedText, lineContent) ==
    IF selectedText # <<>>
    THEN LET lines == SplitLines(selectedText)
         IN  JoinLines([i \in 1..Len(lines) |-> Dedent(lines[i])])
    ELSE Dedent(lineContent)

\* the whole line of the selection start
LineRange(txt, sel) ==
    Range(sel.startLineNumber, 1, sel.startLineNumber, GetLineLength(txt, sel.startLineNumber) + 1)

\* case 'clear-format'
CleanText(selectedText) ==
    LET s1 == StripWrapped(selectedText, <<"*", "*">>)
        s2 == StripWrapped(s1, <<"*">>)
        s3 == StripWrapped(s2, <<"~", "~">>)
        s4 == StripWrapped(s3, <<BQ>>)
        s5 == StripLinks(s4)
        s6 == StripLinePrefix(s5, "heading")
        s7 == StripLinePrefix(s6, "quote")
        s8 == StripLinePrefix(s7, "bullet")
    IN  StripLinePrefix(s8, "number")

-----------------------------------------------------------------------------
\* handleHeadingAction

\* line.match(/^(#{1,6})\s/): the length of the group, 0 when there is no match
HeadingMatch(line) ==
    LET h == RunEnd(line, 1, HashChars)
    IN  IF h >= 1 /\ h <= 6 /\ h + 1 <= Len(line) /\ IsWhitespace(line[h + 1]) THEN h ELSE 0

\* newText
HeadingText(level, line, selectedText) ==
    LET hashes == Repeat("#", level)
        match == HeadingMatch(line)
        rest == SubSeq(line, match + 2, Len(line))
    IN  IF match # 0 /\ match = level THEN rest
        ELSE IF match # 0 THEN hashes \o <<" ">> \o rest
        ELSE IF selectedText # <<>> THEN hashes \o <<" ">> \o selectedText
        ELSE hashes \o <<" ">>

\* the range the heading edit replaces: the whole line when nothing is selected
HeadingRange(txt, sel, selectedText) ==
    IF selectedText = <<>>
    THEN Range(sel.startLineNumber, 1,
               sel.startLineNumber, GetLineLength(txt, sel.startLineNumber) + 1)
    ELSE sel

-----------------------------------------------------------------------------
\* The bridge to the parent (handleEditorMount listeners)

\* a change listener that does not look at the composition state
ChangeCallsAlways(composing, value) == <<value>>

\* onDidChangeModelContent: the setContent calls one change of the model makes
ChangeCalls(composing, value) == IF ~composing THEN <<value>> ELSE <<>>

\* the parent's state updates waiting for the next render: the last one wins
Enqueue(pend, calls) == IF calls = <<>> THEN pend ELSE <<calls[Len(calls)]>>

-----------------------------------------------------------------------------
\* The observation of one handler run

\* editor.getSelection() of an editor that has no model: null (editor.getModel()
\* is null in exactly the same states)
NoSelection == Range(0, 0, 0, 0)

\* t: the translations of the keys the templates use; the empty string when the
\* locale gives none
NoTranslation == [link |-> <<>>, language |-> <<>>, header |-> <<>>, cell |-> <<>>]
Locales ==
    {NoTranslation,
     [link |-> <<"t", "e", "x", "t">>, language |-> <<"c", "o", "d", "e">>,
      header |-> <<"H">>, cell |-> <<"C">>],
     [link |-> <<"t", "e", "x", "t">>,
      language |-> <<"c", "o", "d", "e", "-", "l", "a", "n", "g">>,
      header |-> <<"H">>, cell |-> <<"C">>]}

NoLast ==
    [op |-> "none", actionType |-> "", selectedText |-> <<>>, line |-> <<>>,
     newText |-> <<>>, from |-> 0, to |-> 0, before |-> <<>>, sel |-> Range(1, 1, 1, 1),
     edited |-> FALSE, calls |-> <<>>, composing |-> FALSE,
     priorType |-> "", priorSelected |-> <<>>, priorNew |-> <<>>, priorLine |-> <<>>,
     files |-> <<>>, outcomes |-> <<>>, path |-> "", response |-> "",
     alert |-> "", docChanged |-> FALSE, range |-> Range(1, 1, 1, 1),
     guarded |-> FALSE, placed |-> FALSE, target |-> Range(1, 1, 1, 1), t |-> NoTranslation]

-----------------------------------------------------------------------------
\* handleMarkdownAction(actionType)

\* the action identifiers the formatting specification dispatches
ActionTypes ==
    {"bold", "blockquote", "unordered-list", "ordered-list", "task-list", "clear-format",
     "heading-1", "heading-2", "heading-3", "heading-4", "heading-5", "heading-6"}

\* the action identifiers of the toolbar buttons
ToolbarActions ==
    {"bold", "italic", "strikethrough", "clear-format",
     "heading-1", "heading-2", "heading-3", "heading-4",
     "unordered-list", "ordered-list", "task-list",
     "inline-code", "code-block",
     "blockquote", "horizontal-rule", "table",
     "link", "increase-indent", "decrease-indent"}

\* the action identifiers the keybindings registered at mount pass to the dispatcher
RegisteredActions ==
    {"bold", "italic", "link", "inline-code", "code-block", "blockquote",
     "unordered-list", "ordered-list",
     "heading-1", "heading-2", "heading-3", "heading-4", "heading-5", "heading-6",
     "horizontal-rule", "strikethrough", "table", "task-list", "clear-format",
     "increase-indent", "decrease-indent"}

\* the level a heading case of the switch passes to handleHeadingAction (0: no such case)
HeadingLevel(actionType) ==
    CASE actionType = "heading-1" -> 1
      [] actionType = "heading-2" -> 2
      [] actionType = "heading-3" -> 3
      [] actionType = "heading-4" -> 4
      [] OTHER -> 0

\* the switch has a case for the action
HasCase(actionType) ==
    actionType \in {"bold", "italic", "link", "inline-code", "code-block", "blockquote",
                    "unordered-list", "ordered-list",
                    "heading-1", "heading-2", "heading-3", "heading-4",
                    "horizontal-rule", "strikethrough", "table", "task-list",
                    "clear-format", "increase-indent", "decrease-indent"}

\* guards that test the selection and the model, not the editor
DispatchableWithSelection(isMounted, sel) == sel # NoSelection

\* the guards of the dispatcher pass: the editor is mounted and has a selection
\* and a model
Dispatchable(isMounted, sel) == isMounted /\ sel # NoSelection

\* the text the action's executeEdits call writes
ReplacementText(actionType, txt, sel, t) ==
    LET selectedText == GetValueInRange(txt, sel)
        lineContent == GetLineContent(txt, sel.startLineNumber)
    IN  CASE actionType = "bold" -> BoldText(selectedText)
          [] actionType = "italic" -> ItalicText(selectedText)
          [] actionType = "link" -> LinkText(selectedText, t.link)
          [] actionType = "inline-code" -> InlineCodeText(selectedText)
          [] actionType = "code-block" -> CodeBlockText(selectedText, t.language)
          [] actionType = "blockquote" -> QuoteText(selectedText)
          [] actionType = "unordered-list" -> UnorderedListText(selectedText)
          [] actionType = "ordered-list" -> OrderedListText(selectedText)
          [] actionType = "horizontal-rule" -> HrText
          [] actionType = "strikethrough" -> StrikethroughText(selectedText)
          [] actionType = "table" -> TableText(t.header, t.cell)
          [] actionType = "task-list" -> TaskText(selectedText)
          [] actionType = "clear-format" -> CleanText(selectedText)
          [] actionType = "increase-indent" -> IncreaseIndentText(selectedText, lineContent)
          [] actionType = "decrease-indent" -> DecreaseIndentText(selectedText, lineContent)
          [] OTHER -> HeadingText(HeadingLevel(actionType), lineContent, selectedText)

\* every action replacing the whole line of the selection start
ReplacementRangeWholeLine(actionType, txt, sel) == LineRange(txt, sel)

\* the range the action's executeEdits call replaces
ReplacementRange(actionType, txt, sel) ==
    IF HeadingLevel(actionType) # 0
    THEN HeadingRange(txt, sel, GetValueInRange(txt, sel))
    ELSE IF actionType \in {"increase-indent", "decrease-indent"}
              /\ GetValueInRange(txt, sel) = <<>>
         THEN LineRange(txt, sel)
         ELSE sel

\* the action calls editor.setSelection or editor.setPosition after its edit
PlacesSelection(actionType, selectedText) ==
    \/ actionType = "link"
    \/ actionType = "code-block" /\ selectedText = <<>>
    \/ actionType = "horizontal-rule"

\* the range it passes
PlacedRange(actionType, sel, selectedText, t) ==
    CASE actionType = "link" -> LinkSelection(sel, selectedText, t.link)
      [] actionType = "code-block" -> CodeBlockSelection(sel)
      [] OTHER -> HrPosition(sel)

\* the earlier variant of the component: the actions its keybindings register
EarlierActions ==
    {"bold", "italic", "link", "inline-code", "code-block", "blockquote",
     "unordered-list", "ordered-list",
     "heading-1", "heading-2", "heading-3", "heading-4", "heading-5", "heading-6",
     "horizontal-rule"}

\* the earlier variant: the level addHeadingAction is called with
EarlierHeadingLevel(actionType) ==
    CASE actionType = "heading-5" -> 5
      [] actionType = "heading-6" -> 6
      [] OTHER -> HeadingLevel(actionType)

\* the earlier variant: the text the run handler of the action writes (its link
\* and code-block templates are fixed texts)
EarlierReplacementText(actionType, txt, sel) ==
    LET selectedText == GetValueInRange(txt, sel)
    IN  CASE actionType = "bold" -> BoldText(selectedText)
          [] actionType = "italic" -> ItalicText(selectedText)
          [] actionType = "link" ->
                IF selectedText # <<>> THEN <<"[">> \o selectedText \o UrlTail
                ELSE <<"[">> \o LinkFallback \o UrlTail
          [] actionType = "inline-code" -> InlineCodeText(selectedText)
          [] actionType = "code-block" ->
                Fence \o <<NL>> \o (IF selectedText # <<>> THEN selectedText ELSE LanguageFallback)
                      \o <<NL>> \o Fence
          [] actionType = "blockquote" -> QuoteText(selectedText)
          [] actionType = "unordered-list" -> UnorderedListText(selectedText)
          [] actionType = "ordered-list" -> OrderedListText(selectedText)
          [] actionType = "horizontal-rule" -> HrText
          [] OTHER -> HeadingText(EarlierHeadingLevel(actionType),
                                  GetLineContent(txt, sel.startLineNumber), selectedText)

\* the translations the action has asked t for
UsedTranslation(actionType, selectedText, t) ==
    CASE actionType = "link" /\ selectedText = <<>> -> [NoTranslation EXCEPT !.link = t.link]
      [] actionType = "code-block" /\ selectedText = <<>> ->
            [NoTranslation EXCEPT !.language = t.language]
      [] actionType = "table" -> [NoTranslation EXCEPT !.header = t.header, !.cell = t.cell]
      [] OTHER -> NoTranslation

\* editor.setSelection(range): the range is validated against the model
SetSelection(txt, r) == RangeOfOffsets(txt, RangeStart(txt, r), RangeEnd(txt, r))

HandleMarkdownAction(actionType) ==
    /\ nops > 0
    /\ nops' = nops - 1
    /\ IF Dispatchable(mounted, selection) /\ HasCase(actionType)
       THEN \E t \in Locales :
            LET r == ReplacementRange(actionType, text, selection)
                selectedText == GetValueInRange(text, selection)
                newText == ReplacementText(actionType, text, selection, t)
                value == EditedText(text, r, newText)
                calls == ChangeCalls(isComposing, value)
                places == PlacesSelection(actionType, selectedText)
                target == PlacedRange(actionType, selection, selectedText, t)
            IN  /\ text' = value
                /\ selection' = IF places THEN SetSelection(value, target)
                                ELSE SelectionAfterEdit(text, selection, r, newText)
                /\ pending' = Enqueue(pending, calls)
                /\ undoStack' = Append(undoStack, [text |-> text, selection |-> selection])
                /\ last' = [NoLast EXCEPT
                              !.op = "action", !.actionType = actionType,
                              !.selectedText = selectedText,
                              !.line = GetLineContent(text, selection.startLineNumber),
                              !.newText = newText,
                              !.from = RangeStart(text, r), !.to = RangeEnd(text, r),
                              !.before = text, !.sel = selection, !.edited = TRUE,
                              !.calls = calls, !.composing = isComposing,
                              !.priorType = last.actionType,
                              !.priorSelected = last.selectedText,
                              !.priorNew = last.newText,
                              !.priorLine = last.line,
                              !.placed = places,
                              !.target = IF places THEN target ELSE NoLast.target,
                              !.t = UsedTranslation(actionType, selectedText, t)]
       ELSE /\ last' = [NoLast EXCEPT
                              !.op = "action", !.actionType = actionType,
                              !.guarded = ~Dispatchable(mounted, selection),
                              !.before = text, !.sel = selection,
                              !.composing = isComposing]
            /\ UNCHANGED <<text, selection, pending, undoStack>>
    /\ UNCHANGED <<mounted, content, effectDue, isComposing, uploading, inflight, requests>>

\* the user selects again the text the last action wrote
ReselectResult ==
    /\ mounted
    /\ last.op = "action" /\ last.edited
    /\ selection' = RangeOfOffsets(text, last.from, last.from + Len(last.newText))
    /\ selection' # selection
    /\ UNCHANGED <<mounted, text, content, pending, effectDue, isComposing,
                   uploading, inflight, requests, undoStack, nops, last>>

-----------------------------------------------------------------------------
\* The documents and selections the dispatcher is run on

MaxDragLen == 5      \* documents up to this length are tried with every selection

Docs ==
    { <<>>,
      <<"a", "b">>,
      <<"*", "*">>,
      <<"*", "*", "*">>,
      <<"*", "*", "a", "*", "*">>,
      <<"*", "*", "*", "*", "a", "*", "*", "*", "*">>,
      <<"#", " ", "a", "b">>,
      <<"#", TAB, "a">>,
      <<"#", "#", " ", "a", NL, "b">>,
      <<"#", "#", "#", "#", "#", "#", "#", " ", "a">>,
      <<"a", NL, "b", NL, "c">>,
      <<">", " ", ">", " ", "a">>,
      <<"-", " ", "#", " ", "a">>,
      <<"1", ".", " ", "_", "b", "_">>,
      <<"*", "*", "a", "*", "*", " ", "_", "b", "_", " ", BQ, "c", BQ, " ",
        "[", "d", "]", "(", "e", ")">>,
      <<"a", NL, "b", NL, "a", NL, "b", NL, "a", NL, "b", NL, "a", NL, "b", NL, "a", NL, "b">> }

Selections(txt) ==
    IF Len(txt) <= MaxDragLen
    THEN {RangeOfOffsets(txt, a, b) : a \in 0..Len(txt), b \in 0..Len(txt)}
           \ {RangeOfOffsets(txt, a, b) : a \in 1..Len(txt), b \in 0..(Len(txt) - 1)}
    ELSE {RangeOfOffsets(txt, 0, 0), RangeOfOffsets(txt, 0, Len(txt))}

InitFormat ==
    /\ mounted = TRUE
    /\ text \in Docs
    /\ selection \in Selections(text)
    /\ content = text
    /\ pending = <<>>
    /\ effectDue = FALSE
    /\ isComposing = FALSE
    /\ uploading = FALSE
    /\ inflight = <<>>
    /\ requests = 0
    /\ undoStack = <<>>
    /\ nops = MaxOps
    /\ last = NoLast

NextFormat ==
    \/ \E actionType \in ActionTypes : HandleMarkdownAction(actionType)
    \/ ReselectResult

SpecFormat == InitFormat /\ [][NextFormat]_vars

-----------------------------------------------------------------------------
\* The dispatcher run once on every action, with and without an editor to act on

MaxDispatch == 1     \* actions dispatched in one behaviour of the dispatcher

DispatchDocs ==
    { <<>>,
      <<"a", "b">>,
      <<"a", NL, "b">>,
      <<"a", "b", NL, "c", "d">>,
      <<"*">>,
      <<"*", "*">>,
      <<"*", "*", "*">>,
      <<"*", "a", "*">>,
      <<"*", "*", "a", "*", "*">>,
      <<"~", "~", "~">>,
      <<"~", "~", "a", "~", "~">>,
      <<BQ, "a", BQ>>,
      <<"#", " ", "a", "b">>,
      <<"#", "#", " ", "a">>,
      <<"#", "a">>,
      <<" ", " ", "a">>,
      <<" ", " ", " ", " ", " ", "a">>,
      <<" ", "a", NL, " ", " ", "b">> }

InitDispatch ==
    /\ mounted \in BOOLEAN
    /\ text \in DispatchDocs
    /\ selection \in (IF mounted THEN Selections(text) \cup {NoSelection}
                      ELSE {Range(1, 1, 1, 1)})
    /\ content = text
    /\ pending = <<>>
    /\ effectDue = FALSE
    /\ isComposing = FALSE
    /\ uploading = FALSE
    /\ inflight = <<>>
    /\ requests = 0
    /\ undoStack = <<>>
    /\ nops = MaxDispatch
    /\ last = NoLast

NextDispatch ==
    \E actionType \in RegisteredActions \cup ToolbarActions : HandleMarkdownAction(actionType)

SpecDispatch == InitDispatch /\ [][NextDispatch]_vars

-----------------------------------------------------------------------------
\* The indent actions run one after the other

MaxIndents == 2      \* indent actions dispatched in one behaviour

IndentActions == {"increase-indent", "decrease-indent"}

IndentDocs ==
    { <<>>,
      <<"a">>,
      <<"a", NL, "b">>,
      <<" ", "a", NL, NL, "b">>,
      <<" ", " ", "a">>,
      <<TAB, " ", "a">>,
      <<" ", " ", " ", " ", " ", "a">>,
      <<" ", " ", " ", " ", " ", " ", "a", NL, " ", " ", "b", NL, "c">> }

InitIndent ==
    /\ mounted = TRUE
    /\ text \in IndentDocs
    /\ selection \in Selections(text)
    /\ content = text
    /\ pending = <<>>
    /\ effectDue = FALSE
    /\ isComposing = FALSE
    /\ uploading = FALSE
    /\ inflight = <<>>
    /\ requests = 0
    /\ undoStack = <<>>
    /\ nops = MaxIndents
    /\ last = NoLast

NextIndent ==
    \/ \E actionType \in IndentActions : HandleMarkdownAction(actionType)
    \/ ReselectResult

SpecIndent == InitIndent /\ [][NextIndent]_vars

-----------------------------------------------------------------------------
\* The user at the keyboard and the mouse

MaxEvents == 3       \* user events and handler runs in one behaviour
MaxSubmits == 2      \* events in one behaviour of the upload adapter
MaxLen == 3          \* typing stops at this length of the document

\* the writes every edit of the model makes: the new value, the selection, the
\* undo element and, through onDidChangeModelContent, the parent's update
ApplyEdit(r, newText, sel) ==
    /\ text' = EditedText(text, r, newText)
    /\ selection' = sel
    /\ undoStack' = Append(undoStack, [text |-> text, selection |-> selection])
    /\ pending' = Enqueue(pending, ChangeCalls(isComposing, EditedText(text, r, newText)))

\* a key is typed: the character replaces the selection, the cursor follows it
Type(c) ==
    /\ mounted
    /\ nops > 0
    /\ Len(text) < MaxLen
    /\ nops' = nops - 1
    /\ LET value == EditedText(text, selection, <<c>>)
           at == RangeStart(text, selection) + 1
       IN  /\ ApplyEdit(selection, <<c>>, RangeOfOffsets(value, at, at))
           /\ last' = [NoLast EXCEPT
                         !.op = "type", !.newText = <<c>>, !.before = text,
                         !.from = RangeStart(text, selection), !.to = RangeEnd(text, selection),
                         !.sel = selection, !.edited = TRUE,
                         !.calls = ChangeCalls(isComposing, value),
                         !.composing = isComposing]
    /\ UNCHANGED <<mounted, content, effectDue, isComposing, uploading, inflight, requests>>

\* the user selects a range
Select(r) ==
    /\ mounted
    /\ nops > 0
    /\ r # selection
    /\ nops' = nops - 1
    /\ selection' = r
    /\ last' = [NoLast EXCEPT !.op = "select", !.before = text, !.sel = selection,
                              !.composing = isComposing]
    /\ UNCHANGED <<mounted, text, content, pending, effectDue, isComposing,
                   uploading, inflight, requests, undoStack>>

-----------------------------------------------------------------------------
\* handleEditorMount: the composition, change and blur listeners

\* the editor is created with defaultValue = content and handed to onMount
HandleEditorMount ==
    /\ ~mounted
    /\ mounted' = TRUE
    /\ text' = content
    /\ selection' = Range(1, 1, 1, 1)
    /\ last' = [NoLast EXCEPT !.op = "mount"]
    /\ UNCHANGED <<content, pending, effectDue, isComposing, uploading, inflight,
                   requests, undoStack, nops>>

\* onDidCompositionStart
OnDidCompositionStart ==
    /\ mounted
    /\ ~isComposing
    /\ nops > 0
    /\ nops' = nops - 1
    /\ isComposing' = TRUE
    /\ last' = [NoLast EXCEPT !.op = "compositionStart", !.before = text,
                              !.sel = selection, !.composing = isComposing]
    /\ UNCHANGED <<mounted, text, selection, content, pending, effectDue,
                   uploading, inflight, requests, undoStack>>

\* a composition end that resets the flag and sends nothing to the parent
CompositionEndWithoutCommit ==
    /\ mounted
    /\ isComposing
    /\ isComposing' = FALSE
    /\ last' = [NoLast EXCEPT !.op = "compositionEnd", !.before = text,
                              !.sel = selection, !.composing = isComposing]
    /\ UNCHANGED <<mounted, text, selection, content, pending, effectDue,
                   uploading, inflight, requests, undoStack, nops>>

\* onDidCompositionEnd
OnDidCompositionEnd ==
    /\ mounted
    /\ isComposing
    /\ isComposing' = FALSE
    /\ pending' = Enqueue(pending, <<text>>)
    /\ last' = [NoLast EXCEPT !.op = "compositionEnd", !.before = text,
                              !.sel = selection, !.composing = isComposing,
                              !.calls = <<text>>]
    /\ UNCHANGED <<mounted, text, selection, content, effectDue,
                   uploading, inflight, requests, undoStack, nops>>

\* a blur that commits only when no composition is going on
BlurCommitWhenIdle ==
    /\ mounted
    /\ nops > 0
    /\ nops' = nops - 1
    /\ pending' = Enqueue(pending, ChangeCalls(isComposing, text))
    /\ last' = [NoLast EXCEPT !.op = "blur", !.before = text,
                              !.sel = selection, !.composing = isComposing,
                              !.calls = ChangeCalls(isComposing, text)]
    /\ UNCHANGED <<mounted, text, selection, content, effectDue, isComposing,
                   uploading, inflight, requests, undoStack>>

\* onDidBlurEditorText
OnDidBlurEditorText ==
    /\ mounted
    /\ nops > 0
    /\ nops' = nops - 1
    /\ pending' = Enqueue(pending, <<text>>)
    /\ last' = [NoLast EXCEPT !.op = "blur", !.before = text,
                              !.sel = selection, !.composing = isComposing,
                              !.calls = <<text>>]
    /\ UNCHANGED <<mounted, text, selection, content, effectDue, isComposing,
                   uploading, inflight, requests, undoStack>>

-----------------------------------------------------------------------------
\* The parent and the synchronization effect

\* the values the parent sets content to on its own
ParentValues == {<<>>, <<"p">>}

\* the parent sets its content state to a value of its own
ParentSetContent(v) ==
    /\ nops > 0
    /\ nops' = nops - 1
    /\ pending' = <<v>>
    /\ last' = [NoLast EXCEPT !.op = "parentSet", !.before = text, !.newText = v,
                              !.sel = selection, !.composing = isComposing]
    /\ UNCHANGED <<mounted, text, selection, content, effectDue, isComposing,
                   uploading, inflight, requests, undoStack>>

\* the parent renders with the pending state: the content prop changes and, when
\* it differs from the one of the previous render, the effect is scheduled
Render ==
    /\ pending # <<>>
    /\ content' = pending[1]
    /\ pending' = <<>>
    /\ effectDue' = (effectDue \/ pending[1] # content)
    /\ last' = [NoLast EXCEPT !.op = "render", !.before = text, !.sel = selection,
                              !.composing = isComposing]
    /\ UNCHANGED <<mounted, text, selection, isComposing, uploading, inflight,
                   requests, undoStack, nops>>

\* an effect that calls setValue without comparing the two texts
SyncEffectUnguarded ==
    /\ effectDue
    /\ effectDue' = FALSE
    /\ IF mounted
       THEN /\ text' = content
            /\ selection' = Range(1, 1, 1, 1)
            /\ undoStack' = <<>>
            /\ pending' = Enqueue(pending, ChangeCalls(isComposing, content))
            /\ last' = [NoLast EXCEPT !.op = "effect", !.before = text, !.sel = selection,
                                      !.newText = content, !.edited = TRUE,
                                      !.composing = isComposing,
                                      !.calls = ChangeCalls(isComposing, content)]
       ELSE /\ last' = [NoLast EXCEPT !.op = "effect", !.before = text, !.sel = selection,
                                      !.composing = isComposing]
            /\ UNCHANGED <<text, selection, undoStack, pending>>
    /\ UNCHANGED <<mounted, content, isComposing, uploading, inflight, requests, nops>>

\* useEffect(() => {...}, [content])
SyncEffect ==
    /\ effectDue
    /\ effectDue' = FALSE
    /\ IF mounted /\ text # content
       THEN /\ text' = content
            /\ selection' = Range(1, 1, 1, 1)
            /\ undoStack' = <<>>
            /\ pending' = Enqueue(pending, ChangeCalls(isComposing, content))
            /\ last' = [NoLast EXCEPT !.op = "effect", !.before = text, !.sel = selection,
                                      !.newText = content, !.edited = TRUE,
                                      !.composing = isComposing,
                                      !.calls = ChangeCalls(isComposing, content)]
       ELSE /\ last' = [NoLast EXCEPT !.op = "effect", !.before = text, !.sel = selection,
                                      !.composing = isComposing]
            /\ UNCHANGED <<text, selection, undoStack, pending>>
    /\ UNCHANGED <<mounted, content, isComposing, uploading, inflight, requests, nops>>

-----------------------------------------------------------------------------
\* The upload adapter

\* the size above which the upload button refuses a file
SizeLimit == 5 * 1024000

\* `![${file.name}](${url})\n`
ImageText(name, url) == <<"!", "[">> \o name \o <<"]", "(">> \o url \o <<")", NL>>

\* the URL the storage endpoint answers for a file
UrlOf(file) == <<"u">>

\* files around the limit of the button and around 5,000,000 bytes
SmallFile == [name |-> <<"f">>, size |-> 1000]
OtherFile == [name |-> <<"g">>, size |-> 1000]
MidFile == [name |-> <<"m">>, size |-> 5000001]
EdgeFile == [name |-> <<"e">>, size |-> 5120000]
BigFile == [name |-> <<"h">>, size |-> 5120001]

\* the file lists of the events: event.currentTarget.files, dataTransfer.files,
\* clipboardData.files
\* (the file input has no "multiple" attribute: the button hands over one file)
ButtonLists == {<<SmallFile>>, <<MidFile>>, <<EdgeFile>>, <<BigFile>>}
DropLists == {<<SmallFile>>, <<BigFile>>, <<SmallFile, OtherFile>>}
PasteLists == {<<SmallFile>>, <<BigFile>>, <<SmallFile, OtherFile>>}

\* uploadImage(file, onSuccess, showAlert): the request is sent.  range is the
\* editor's selection at the call, docChanged whether the handler that made the
\* call has left the document different from what it was before the event
Upload(path, file, r, docChanged) ==
    [path |-> path, file |-> file, range |-> r, docChanged |-> docChanged]

\* upChange: what happens to file i of the list, given what happened to the files
\* before it.  Clearing the input empties event.currentTarget.files, which the loop
\* condition reads again, so the loop ends after the first file that is too large.
RECURSIVE UpChangeOutcomes(_, _, _)
UpChangeOutcomes(files, i, hasEditor) ==
    IF i > Len(files) THEN <<>>
    ELSE IF files[i].size > SizeLimit
         THEN <<"tooLarge">> \o [k \in 1..(Len(files) - i) |-> "skipped"]
         ELSE IF ~hasEditor
              THEN [k \in 1..(Len(files) - i + 1) |-> "skipped"]
              ELSE <<"requested">> \o UpChangeOutcomes(files, i + 1, hasEditor)

\* the uploads a handler starts: one for each requested file, in order
RECURSIVE Started(_, _, _, _)
Started(path, files, outcomes, r) ==
    IF files = <<>> THEN <<>>
    ELSE (IF outcomes[1] = "requested" THEN <<Upload(path, files[1], r, FALSE)>> ELSE <<>>)
           \o Started(path, Tail(files), Tail(outcomes), r)

\* UploadImageButton.upChange
UpChange(files) ==
    /\ nops > 0
    /\ nops' = nops - 1
    /\ LET outcomes == UpChangeOutcomes(files, 1, mounted)
           started == Started("button", files, outcomes, selection)
       IN  /\ inflight' = inflight \o started
           /\ requests' = requests + Len(started)
           /\ uploading' = (uploading \/ started # <<>>)
           /\ last' = [NoLast EXCEPT !.op = "upChange", !.path = "button", !.before = text,
                                     !.sel = selection, !.composing = isComposing,
                                     !.files = files, !.outcomes = outcomes]
    /\ UNCHANGED <<mounted, text, selection, content, pending, effectDue, isComposing,
                   undoStack>>

\* onDrop
OnDrop(files) ==
    /\ nops > 0
    /\ nops' = nops - 1
    /\ LET outcomes == [i \in 1..Len(files) |-> IF mounted THEN "requested" ELSE "skipped"]
           started == Started("drop", files, outcomes, selection)
       IN  /\ inflight' = inflight \o started
           /\ requests' = requests + Len(started)
           /\ uploading' = (uploading \/ started # <<>>)
           /\ last' = [NoLast EXCEPT !.op = "onDrop", !.path = "drop", !.before = text,
                                     !.sel = selection, !.composing = isComposing,
                                     !.files = files, !.outcomes = outcomes]
    /\ UNCHANGED <<mounted, text, selection, content, pending, effectDue, isComposing,
                   undoStack>>

\* handlePaste, run after the editor has handled the paste itself: the editor has
\* inserted the clipboard's text, if it holds any, before the handler triggers undo
PastedTexts == {<<>>, <<"v">>}

HandlePaste(files, pasted) ==
    /\ nops > 0
    /\ mounted
    /\ nops' = nops - 1
    /\ LET pastedValue == IF pasted = <<>> THEN text ELSE EditedText(text, selection, pasted)
           stack == IF pasted = <<>> THEN undoStack
                    ELSE Append(undoStack, [text |-> text, selection |-> selection])
           calls1 == IF pasted = <<>> THEN <<>> ELSE ChangeCalls(isComposing, pastedValue)
           undoes == Len(files) = 1 /\ stack # <<>>
           value == IF undoes THEN stack[Len(stack)].text ELSE pastedValue
           calls2 == IF undoes THEN ChangeCalls(isComposing, value) ELSE <<>>
           at == RangeStart(text, selection) + Len(pasted)
           sel == IF undoes THEN stack[Len(stack)].selection
                  ELSE IF pasted = <<>> THEN selection
                  ELSE RangeOfOffsets(pastedValue, at, at)
           started == IF Len(files) = 1
                      THEN <<Upload("paste", files[1], sel, value # text)>> ELSE <<>>
       IN  /\ text' = value
           /\ selection' = sel
           /\ undoStack' = IF undoes THEN SubSeq(stack, 1, Len(stack) - 1) ELSE stack
           /\ pending' = Enqueue(pending, calls1 \o calls2)
           /\ inflight' = inflight \o started
           /\ requests' = requests + Len(started)
           /\ uploading' = (uploading \/ started # <<>>)
           /\ last' = [NoLast EXCEPT !.op = "handlePaste", !.path = "paste", !.before = text,
                                     !.sel = selection, !.composing = isComposing,
                                     !.newText = pasted, !.edited = (value # text),
                                     !.calls = calls1 \o calls2,
                                     !.files = files,
                                     !.outcomes = [i \in 1..Len(files) |->
                                         IF Len(files) = 1 THEN "requested" ELSE "skipped"]]
    /\ UNCHANGED <<mounted, content, effectDue, isComposing>>

\* the sequence without its i-th element
RemoveAt(q, i) == SubSeq(q, 1, i - 1) \o SubSeq(q, i + 1, Len(q))

\* the range onSuccess replaces: the selection read when the file was submitted
\* (button, drop) or when the answer arrives (paste)
SuccessRange(up, sel) == IF up.path = "paste" THEN sel ELSE up.range

\* .then(({ data, error }) => ...): the answer carries an error or the URL
UploadThen(i, response) ==
    /\ i \in 1..Len(inflight)
    /\ inflight' = RemoveAt(inflight, i)
    /\ LET up == inflight[i]
           r == SuccessRange(up, selection)
           newText == ImageText(up.file.name, UrlOf(up.file))
           value == EditedText(text, r, newText)
       IN  IF response = "data"
           THEN /\ uploading' = FALSE
                /\ ApplyEdit(r, newText, SelectionAfterEdit(text, selection, r, newText))
                /\ last' = [NoLast EXCEPT !.op = "uploadThen", !.path = up.path,
                                          !.response = response, !.before = text,
                                          !.sel = selection, !.composing = isComposing,
                                          !.newText = newText, !.edited = TRUE,
                                          !.from = RangeStart(text, r), !.to = RangeEnd(text, r),
                                          !.calls = ChangeCalls(isComposing, value),
                                          !.files = <<up.file>>,
                                          !.range = up.range, !.docChanged = up.docChanged]
           ELSE /\ last' = [NoLast EXCEPT !.op = "uploadThen", !.path = up.path,
                                          !.response = response, !.before = text,
                                          !.sel = selection, !.composing = isComposing,
                                          !.files = <<up.file>>, !.alert = "upload.failed",
                                          !.range = up.range, !.docChanged = up.docChanged]
                /\ UNCHANGED <<text, selection, undoStack, pending, uploading>>
    /\ UNCHANGED <<mounted, content, effectDue, isComposing, requests, nops>>

\* .catch((e) => ...): the request is rejected
UploadCatch(i) ==
    /\ i \in 1..Len(inflight)
    /\ inflight' = RemoveAt(inflight, i)
    /\ last' = [NoLast EXCEPT !.op = "uploadCatch", !.path = inflight[i].path,
                              !.response = "rejected", !.before = text,
                              !.sel = selection, !.composing = isComposing,
                              !.files = <<inflight[i].file>>, !.alert = "upload.failed",
                              !.range = inflight[i].range,
                              !.docChanged = inflight[i].docChanged]
    /\ UNCHANGED <<mounted, text, selection, content, pending, effectDue, isComposing,
                   uploading, requests, undoStack, nops>>

-----------------------------------------------------------------------------
\* The upload adapter with the user editing while uploads are in flight

\* the selections the user makes around uploads: a cursor at either end of the
\* document, or the whole document
EndSelections(txt) ==
    {RangeOfOffsets(txt, 0, 0), RangeOfOffsets(txt, 0, Len(txt)),
     RangeOfOffsets(txt, Len(txt), Len(txt))}

InitUpload ==
    /\ mounted = TRUE
    /\ text = <<"a", "b">>
    /\ selection \in EndSelections(text)
    /\ content = text
    /\ pending = <<>>
    /\ effectDue = FALSE
    /\ isComposing = FALSE
    /\ uploading = FALSE
    /\ inflight = <<>>
    /\ requests = 0
    /\ undoStack = <<>>
    /\ nops = MaxSubmits
    /\ last = NoLast

NextUpload ==
    \/ \E files \in ButtonLists : UpChange(files)
    \/ \E files \in DropLists : OnDrop(files)
    \/ \E files \in PasteLists, pasted \in PastedTexts : HandlePaste(files, pasted)
    \/ \E i \in DOMAIN inflight, response \in {"data", "error"} : UploadThen(i, response)
    \/ \E i \in DOMAIN inflight : UploadCatch(i)
    \/ \E c \in {"x"} : Type(c)
    \/ \E r \in EndSelections(text) : Select(r)

SpecUpload == InitUpload /\ [][NextUpload]_vars

-----------------------------------------------------------------------------
\* The component: mount, editing, composition, blur, the parent and the effect

Init ==
    /\ mounted = FALSE
    /\ content \in {<<>>, <<"a">>}
    /\ text = content
    /\ selection = Range(1, 1, 1, 1)
    /\ pending = <<>>
    /\ effectDue = FALSE
    /\ isComposing = FALSE
    /\ uploading = FALSE
    /\ inflight = <<>>
    /\ requests = 0
    /\ undoStack = <<>>
    /\ nops = MaxEvents
    /\ last = NoLast

Next ==
    \/ HandleEditorMount
    \/ \E c \in {"x"} : Type(c)
    \/ \E actionType \in {"bold"} : HandleMarkdownAction(actionType)
    \/ OnDidCompositionStart
    \/ OnDidCompositionEnd
    \/ OnDidBlurEditorText
    \/ \E v \in ParentValues : ParentSetContent(v)
    \/ Render
    \/ SyncEffect
    \/ \E files \in {<<SmallFile>>} : OnDrop(files)
    \/ \E i \in DOMAIN inflight, response \in {"data", "error"} : UploadThen(i, response)

Spec == Init /\ [][Next]_vars

\* the component with the renders and effects React has scheduled eventually run
SpecLive == Spec /\ WF_vars(Render) /\ WF_vars(SyncEffect)

-----------------------------------------------------------------------------
\* Properties of the formatting actions (checked under SpecFormat)

ActionRan(actionType) == last.op = "action" /\ last.edited /\ last.actionType = actionType

\* the last edit wrote t in place of the selection and changed nothing else
ReplacedSelectionBy(t) ==
    /\ last.newText = t
    /\ last.selectedText = GetValueInRange(last.before, last.sel)
    /\ text = SubSeq(last.before, 1, RangeStart(last.before, last.sel)) \o t
                \o SubSeq(last.before, RangeEnd(last.before, last.sel) + 1, Len(last.before))

Stars == <<"*", "*">>

\* the text starts with two stars and ends with two stars
Starred(s) ==
    Len(s) >= 2 /\ s[1] = "*" /\ s[2] = "*" /\ s[Len(s) - 1] = "*" /\ s[Len(s)] = "*"

\* x of a text **x**; the text itself when it is not of that form
BoldCore(s) == IF Len(s) >= 4 /\ Starred(s) THEN SubSeq(s, 3, Len(s) - 2) ELSE s

\* the last two actions were bold, the second on the text the first one wrote
BoldTwice ==
    ActionRan("bold") /\ last.priorType = "bold" /\ last.selectedText = last.priorNew

HashCount(line) == Cardinality({k \in 1..Len(line) : \A j \in 1..k : line[j] = "#"})

\* the line begins with a heading marker: 1 to 6 '#' and a whitespace character
HasHeadingMarker(line) ==
    /\ HashCount(line) \in 1..6
    /\ Len(line) > HashCount(line)
    /\ line[HashCount(line) + 1] \in {" ", TAB}

HeadingNames == <<"heading-1", "heading-2", "heading-3", "heading-4", "heading-5", "heading-6">>

\* C2: a heading action of level L on a line that begins with a heading marker
\* leaves the line without the marker when the marker's level is L, and with the
\* marker replaced by L '#' and a space otherwise, whatever is selected
C2_HeadingOnMarkedLine ==
    \A L \in 1..6 :
        (ActionRan(HeadingNames[L]) /\ HasHeadingMarker(last.line)) =>
            LET rest == SubSeq(last.line, HashCount(last.line) + 2, Len(last.line))
            IN  GetLineContent(text, last.sel.startLineNumber) =
                    IF HashCount(last.line) = L THEN rest
                    ELSE [k \in 1..L |-> "#"] \o <<" ">> \o rest

\* the lines of a text, by the places of its line terminators
BreaksOf(s) == {i \in 1..Len(s) : s[i] = NL}
LineCountOf(s) == Cardinality(BreaksOf(s)) + 1
BreakAt(s, k) == CHOOSE i \in BreaksOf(s) : Cardinality({j \in BreaksOf(s) : j <= i}) = k
LineOf(s, k) ==
    SubSeq(s, IF k = 1 THEN 1 ELSE BreakAt(s, k - 1) + 1,
              IF k = LineCountOf(s) THEN Len(s) ELSE BreakAt(s, k) - 1)

Digits == <<"1", "2", "3", "4", "5", "6", "7", "8", "9">>
Decimal(i) ==
    IF i < 10 THEN <<Digits[i]>>
    ELSE <<Digits[i \div 10], IF i % 10 = 0 THEN "0" ELSE Digits[i % 10]>>

\* the marker of line i under each line-prefix action
MarkerOf(actionType, i) ==
    CASE actionType = "blockquote" -> <<">", " ">>
      [] actionType = "unordered-list" -> <<"-", " ">>
      [] actionType = "ordered-list" -> Decimal(i) \o <<".", " ">>
      [] actionType = "task-list" -> <<"-", " ", "[", " ", "]", " ">>

\* C3: blockquote, unordered-list, ordered-list and task-list on a selection of n
\* lines write n lines, line i being the marker of line i followed by line i of the
\* selection; on an empty selection they write the marker alone
C3_LinePrefix ==
    \A a \in {"blockquote", "unordered-list", "ordered-list", "task-list"} :
        ActionRan(a) =>
            /\ ReplacedSelectionBy(last.newText)
            /\ IF last.selectedText = <<>>
               THEN last.newText = MarkerOf(a, 1)
               ELSE /\ LineCountOf(last.newText) = LineCountOf(last.selectedText)
                    /\ \A i \in 1..LineCountOf(last.selectedText) :
                          LineOf(last.newText, i) = MarkerOf(a, i) \o LineOf(last.selectedText, i)

\* an ordered list was made of a selection of ten lines or more
C3_Witness ==
    /\ ActionRan("ordered-list")
    /\ LineCountOf(last.selectedText) >= 10
    /\ LineCountOf(last.newText) = LineCountOf(last.selectedText)

\* C6: clear-format on **a** _b_ `c` [d](e) writes a b c d
C6_ClearFormatExample ==
    (ActionRan("clear-format") /\
     last.selectedText = <<"*", "*", "a", "*", "*", " ", "_", "b", "_", " ", BQ, "c", BQ, " ",
                           "[", "d", "]", "(", "e", ")">>)
        => last.newText = <<"a", " ", "b", " ", "c", " ", "d">>

\* C7: clear-format applied to its own result changes nothing
C7_ClearFormatIdempotent ==
    (ActionRan("clear-format") /\ last.priorType = "clear-format"
       /\ last.selectedText = last.priorNew)
        => last.newText = last.selectedText

-----------------------------------------------------------------------------
\* Properties of the upload adapter (checked under SpecUpload)

\* C4: the upload button sends no request for a file of more than 5,000,000 bytes:
\* every such file takes the size-exceeded path
C4_ButtonRefusesOver5MB ==
    last.op = "upChange" =>
        \A i \in DOMAIN last.files :
            last.files[i].size > 5000000 => last.outcomes[i] = "tooLarge"

\* C5: on every path (button, drop, paste) a file over the adapter's threshold
\* never reaches the upload request
C5_EveryPathRefusesOverLimit ==
    last.op \in {"upChange", "onDrop", "handlePaste"} =>
        \A i \in DOMAIN last.files :
            last.files[i].size > SizeLimit => last.outcomes[i] # "requested"

-----------------------------------------------------------------------------
\* Properties of the bridge (checked under Spec)

\* C8: a change of the editor's content calls setContent with the editor's full
\* text when the bridge is idle, and calls nothing while it is composing
C8_ChangeSuppressedWhileComposing ==
    (last.edited /\ last.op \in {"type", "action", "uploadThen", "effect"}) =>
        IF last.composing
        THEN last.calls = <<>>
        ELSE last.calls = <<text>> /\ pending = <<text>>

\* a key was typed during a composition and nothing was sent to the parent
C8_Witness ==
    /\ last.op = "type" /\ last.edited /\ last.composing
    /\ text # last.before
    /\ last.calls = <<>> /\ pending = <<>>

\* C9: the composition state is one of idle and composing; composition start
\* leaves it composing; composition end leaves it idle and calls setContent with
\* the editor's full text
C9_CompositionCommit ==
    /\ isComposing \in BOOLEAN
    /\ last.op = "compositionStart" => isComposing
    /\ last.op = "compositionEnd" =>
          ~isComposing /\ last.composing /\ last.calls = <<text>> /\ pending = <<text>>

\* a composition ended after the text was changed during it
C9_Witness ==
    /\ last.op = "compositionEnd"
    /\ text # content
    /\ pending = <<text>>

\* C10: a blur calls setContent with the editor's full text, idle or composing,
\* and leaves the composition state as it was
C10_BlurCommits ==
    last.op = "blur" =>
        /\ last.calls = <<text>> /\ pending = <<text>>
        /\ isComposing = last.composing
        /\ text = last.before

\* the editor lost focus during a composition that had changed the text
C10_Witness ==
    /\ last.op = "blur"
    /\ last.composing /\ isComposing
    /\ text # content
    /\ pending = <<text>>

-----------------------------------------------------------------------------
\* Properties of the synchronization and of upload completions

\* C11: whenever the bridge is idle and no parent update and no synchronization
\* effect is pending, the parent's content equals the editor's text
C11_ParentEqualsEditorWhenQuiet ==
    (mounted /\ ~isComposing /\ pending = <<>> /\ ~effectDue) => content = text

\* an upload has failed: the answer carried an error or the request was rejected
UploadFailed ==
    \/ last.op = "uploadThen" /\ last.response = "error"
    \/ last.op = "uploadCatch"

\* C12: when an upload fails the document is what it was before the file was
\* submitted (neither the submitting handler nor the failure has changed it), no
\* image reference is inserted, and the upload-failed message is reported, on the
\* button, drop and paste paths
C12_FailedUploadLeavesDocument ==
    UploadFailed =>
        /\ text = last.before
        /\ ~last.edited
        /\ ~last.docChanged
        /\ last.alert = "upload.failed"

\* C13: a successful upload writes its image reference once, over the selection
\* that was current when the file was submitted, on every path
C13_InsertAtSubmitSelection ==
    (last.op = "uploadThen" /\ last.response = "data") =>
        /\ last.newText = ImageText(last.files[1].name, UrlOf(last.files[1]))
        /\ last.from = RangeStart(last.before, last.range)
        /\ last.to = RangeEnd(last.before, last.range)
        /\ text = EditedText(last.before, last.range, last.newText)

-----------------------------------------------------------------------------
\* Properties of the dispatcher (checked under SpecDispatch and SpecFormat)

\* C14: a formatting action dispatched when the editor is not mounted, or has no
\* selection and no model, edits nothing and leaves document and selection as
\* they were
C14_GuardedDispatchIsNoOp ==
    (last.op = "action" /\ (~mounted \/ last.sel = NoSelection)) =>
        /\ ~last.edited /\ ~last.placed
        /\ text = last.before
        /\ selection = last.sel
        /\ last.calls = <<>>

\* an action with a case in the dispatcher was dispatched to a mounted editor
\* that had no selection, on a non-empty document
C14_Witness ==
    /\ last.op = "action" /\ last.actionType = "bold"
    /\ mounted /\ last.sel = NoSelection
    /\ text # <<>> /\ text = last.before

\* the offsets of a position of the document: characters before it
OffsetOf(txt, ln, col) ==
    LET starts == {0} \cup {i \in 1..Len(txt) : txt[i] = NL}
        lineStart == CHOOSE i \in starts : Cardinality({j \in starts : j < i}) = ln - 1
    IN  lineStart + col - 1

\* the end of the line a position of the document is on
LineEndOf(txt, off) ==
    LET ends == {i \in (off + 1)..Len(txt) : txt[i] = NL}
    IN  IF ends = {} THEN Len(txt) ELSE Min(ends) - 1

\* the start of the line a position of the document is on
LineStartOf(txt, off) ==
    LET nls == {i \in 1..off : txt[i] = NL}
    IN  IF nls = {} THEN 0 ELSE CHOOSE i \in nls : \A j \in nls : j <= i

LineActions ==
    {"heading-1", "heading-2", "heading-3", "heading-4", "increase-indent", "decrease-indent"}

\* C15: a dispatched action makes at most one replacement, of the selection (of
\* the line of the selection start for a heading or indent action on an empty
\* selection); the text before and after that range is unchanged; a selection or
\* cursor is placed only by link, code-block and horizontal-rule; nothing else of
\* the component changes
C15_OneBoundedReplacement ==
    [][ (last'.op = "action" /\ nops' # nops /\ Dispatchable(mounted, selection)) =>
          LET a == OffsetOf(text, selection.startLineNumber, selection.startColumn)
              b == OffsetOf(text, selection.endLineNumber, selection.endColumn)
              onLine == a = b /\ last'.actionType \in LineActions
              from == IF onLine THEN LineStartOf(text, a) ELSE a
              to == IF onLine THEN LineEndOf(text, a) ELSE b
          IN  /\ IF last'.edited
                 THEN text' = SubSeq(text, 1, from) \o last'.newText
                                 \o SubSeq(text, to + 1, Len(text))
                 ELSE text' = text /\ selection' = selection
              /\ last'.placed =>
                    last'.actionType \in {"link", "code-block", "horizontal-rule"}
              /\ UNCHANGED <<mounted, content, effectDue, isComposing, uploading,
                             inflight, requests>> ]_vars

\* a heading was set on the line of an empty selection that is not at the line's
\* start, on a document of several lines
C15_Witness ==
    /\ ActionRan("heading-2")
    /\ last.selectedText = <<>>
    /\ last.sel.startColumn > 1 /\ last.sel.startLineNumber > 1
    /\ last.from < RangeStart(last.before, last.sel)
    /\ text # last.before

\* C16: every action registered as a keybinding, triggered on a valid selection,
\* performs its replacement, and for the actions of the earlier variant the
\* replacement is the one that variant's handler writes
C16_RegisteredActionsImplemented ==
    (last.op = "action" /\ last.actionType \in RegisteredActions
       /\ mounted /\ last.sel # NoSelection) =>
        /\ last.edited
        /\ last.actionType \in EarlierActions =>
              last.newText = EarlierReplacementText(last.actionType, last.before, last.sel)

\* the marker of each toggle-wrap action
ToggleMarker(actionType) ==
    CASE actionType = "bold" -> <<"*", "*">>
      [] actionType = "italic" -> <<"*">>
      [] actionType = "strikethrough" -> <<"~", "~">>
      [] actionType = "inline-code" -> <<BQ>>

\* the text carries a leading marker and a trailing marker
Carries(s, m) ==
    /\ Len(s) >= 2 * Len(m)
    /\ SubSeq(s, 1, Len(m)) = m
    /\ SubSeq(s, Len(s) - Len(m) + 1, Len(s)) = m

\* C17: a toggle-wrap action with marker m writes the selection without one
\* leading and one trailing m when the selection carries them, and m + selection
\* + m otherwise; the length changes by exactly twice the length of m, also for a
\* selection shorter than two markers
C17_ToggleWrapLength ==
    \A a \in {"bold", "italic", "strikethrough", "inline-code"} :
        ActionRan(a) =>
            LET m == ToggleMarker(a)
                s == last.selectedText
            IN  /\ IF Carries(s, m)
                   THEN last.newText = SubSeq(s, Len(m) + 1, Len(s) - Len(m))
                   ELSE last.newText = m \o s \o m
                /\ Len(last.newText) - Len(s) \in {2 * Len(m), 0 - 2 * Len(m)}

\* C19: a heading action of level L on a line without a heading marker removes
\* no text: on an empty selection the line becomes L '#', a space and the line's
\* content; on a non-empty selection the selection becomes L '#', a space and
\* the selected text
C19_HeadingKeepsText ==
    \A L \in 1..6 :
        (ActionRan(HeadingNames[L]) /\ ~HasHeadingMarker(last.line)) =>
            IF last.selectedText = <<>>
            THEN GetLineContent(text, last.sel.startLineNumber)
                     = [k \in 1..L |-> "#"] \o <<" ">> \o last.line
            ELSE ReplacedSelectionBy([k \in 1..L |-> "#"] \o <<" ">> \o last.selectedText)

\* the text the editor's selection covers, by offsets
Selected == SubSeq(text, OffsetOf(text, selection.startLineNumber, selection.startColumn) + 1,
                         OffsetOf(text, selection.endLineNumber, selection.endColumn))

\* C20: link on a non-empty selection s, of one line or several, writes [s](url)
\* and leaves exactly url selected; on an empty selection it writes the template
\* with the placeholder and leaves exactly the placeholder selected
C20_LinkSelectsUrl ==
    ActionRan("link") =>
        IF last.selectedText # <<>>
        THEN /\ ReplacedSelectionBy(<<"[">> \o last.selectedText \o <<"]", "(", "u", "r", "l", ")">>)
             /\ Selected = <<"u", "r", "l">>
             /\ OffsetOf(text, selection.startLineNumber, selection.startColumn)
                   = last.from + Len(last.selectedText) + 3
        ELSE LET placeholder == IF last.t.link = <<>> THEN LinkFallback ELSE last.t.link
             IN  /\ ReplacedSelectionBy(<<"[">> \o placeholder \o <<"]", "(", "u", "r", "l", ")">>)
                 /\ Selected = placeholder
                 /\ OffsetOf(text, selection.startLineNumber, selection.startColumn)
                       = last.from + 1

-----------------------------------------------------------------------------
\* Termination of the synchronization (checked under SpecLive)

\* C18: the synchronization effect calls setValue only when the editor's text
\* differs from the parent's content, and once the inputs have stopped the
\* queued parent updates and effects run out: a state is reached, and kept,
\* where no setContent is queued and no effect is due
C18_SyncTerminates ==
    /\ [](last.op = "effect" /\ last.edited => last.before # content)
    /\ <>[](pending = <<>> /\ ~effectDue)

\* the effect has called setValue on an idle bridge, and the change listener has
\* answered with a setContent of the value just set
C18_Witness ==
    /\ last.op = "effect" /\ last.edited /\ ~last.composing
    /\ last.before # text
    /\ text = content
    /\ pending = <<text>>

-----------------------------------------------------------------------------
\* Properties of the code-block action (checked under SpecDispatch)

\* C21: code-block on an empty selection writes an opening fence, a placeholder
\* line and a closing fence, and leaves exactly the placeholder selected,
\* whatever its length; on a non-empty selection it writes the selected text
\* between the two fences and places no selection
C21_CodeBlockSelectsPlaceholder ==
    ActionRan("code-block") =>
        LET fence == <<BQ, BQ, BQ>>
            placeholder == IF last.t.language = <<>> THEN LanguageFallback ELSE last.t.language
        IN  IF last.selectedText = <<>>
            THEN /\ ReplacedSelectionBy(fence \o <<NL>> \o placeholder \o <<NL>> \o fence)
                 /\ Selected = placeholder
                 /\ OffsetOf(text, selection.startLineNumber, selection.startColumn)
                       = last.from + 4
            ELSE /\ ReplacedSelectionBy(fence \o <<NL>> \o last.selectedText \o <<NL>> \o fence)
                 /\ ~last.placed

-----------------------------------------------------------------------------
\* Properties of overlapping uploads (checked under SpecUpload)

\* the number of places of a text where a given text occurs
Occurrences(part, whole) ==
    Cardinality({i \in 1..(Len(whole) - Len(part) + 1) :
                    SubSeq(whole, i, i + Len(part) - 1) = part})

\* the image references of the files that are uploaded
ImageTexts == {ImageText(f.name, UrlOf(f)) : f \in {SmallFile, OtherFile, MidFile, EdgeFile, BigFile}}

\* C22: when an upload of the button or drop path succeeds, every image reference
\* inserted before is still intact in the document, the new one is added to
\* them, and no character the user typed is overwritten
C22_CompletionsKeepEarlierText ==
    (last.op = "uploadThen" /\ last.response = "data" /\ last.path \in {"button", "drop"}) =>
        /\ \A image \in ImageTexts :
              Occurrences(image, text) =
                  Occurrences(image, last.before) + (IF image = last.newText THEN 1 ELSE 0)
        /\ Occurrences(<<"x">>, text) >= Occurrences(<<"x">>, last.before)

\* C23: the uploading indicator is true exactly while an upload is in flight: it
\* is not false while one is pending, and it is false once all have settled
C23_IndicatorMatchesInflight ==
    uploading <=> inflight # <<>>

-----------------------------------------------------------------------------
\* Properties of the synchronization effect (checked under Spec)

\* a value only the editor can have reported: the document starts as one of the
\* initial contents and the parent sets only values of its own
InitialContents == {<<>>, <<"a">>}
ReportedByEditor(v) == v \notin (ParentValues \cup InitialContents)

\* C24: the synchronization effect never replaces the editor's text with a value
\* the editor itself reported earlier: a text the user has changed since the
\* notification is not overwritten by the notified value
C24_EffectKeepsLaterEdit ==
    (last.op = "effect" /\ last.edited) => ~ReportedByEditor(text)

-----------------------------------------------------------------------------
\* Properties of the indent actions (checked under SpecIndent)

\* the text an indent action works on: the selection, or the line of the cursor
IndentSource == IF last.selectedText = <<>> THEN last.line ELSE last.selectedText

\* the number of spaces a text starts with
LeadingSpaces(s) == Cardinality({k \in 1..Len(s) : \A j \in 1..k : s[j] = " "})

FourSpaces == <<" ", " ", " ", " ">>

\* C25: increase-indent puts exactly four spaces before every line of the
\* selection (of the current line when nothing is selected); decrease-indent
\* takes at most four leading spaces, and nothing else, from every line; and
\* decrease-indent applied to what increase-indent wrote gives the original back
C25_IndentRoundTrip ==
    /\ ActionRan("increase-indent") =>
          /\ LineCountOf(last.newText) = LineCountOf(IndentSource)
          /\ \A i \in 1..LineCountOf(IndentSource) :
                LineOf(last.newText, i) = FourSpaces \o LineOf(IndentSource, i)
    /\ ActionRan("decrease-indent") =>
          /\ LineCountOf(last.newText) = LineCountOf(IndentSource)
          /\ \A i \in 1..LineCountOf(IndentSource) :
                LET line == LineOf(IndentSource, i)
                    k == IF LeadingSpaces(line) > 4 THEN 4 ELSE LeadingSpaces(line)
                IN  LineOf(last.newText, i) = SubSeq(line, k + 1, Len(line))
    /\ (ActionRan("decrease-indent") /\ last.priorType = "increase-indent"
          /\ IndentSource = last.priorNew) =>
          last.newText = (IF last.priorSelected = <<>> THEN last.priorLine
                          ELSE last.priorSelected)

\* lines that already began with spaces were indented and brought back
C25_Witness ==
    /\ ActionRan("decrease-indent") /\ last.priorType = "increase-indent"
    /\ IndentSource = last.priorNew
    /\ LineCountOf(last.newText) >= 2
    /\ LeadingSpaces(last.newText) >= 1
    /\ last.newText = last.priorSelected

====
